---- MODULE Spec2Model ----
(***************************************************************************)
(* Model of reinicke_v2_airtable_replace.py: the link collector, the       *)
(* identity key, the scrape loop of run(), the reconciliation of the       *)
(* scraped records against the Airtable table and the batched store calls. *)
(*                                                                         *)
(* Python values are tagged tuples (Str, Int, None) so that values of      *)
(* different Python types compare unequal; a dict is a function from its   *)
(* keys to its values; a str is a TLA+ string.                             *)
(***************************************************************************)
EXTENDS Integers, Sequences, FiniteSets, TLC

VARIABLES
    \* ---- the environment
    page,          \* the listing page as served: its link-bearing elements
    cfg,           \* AIRTABLE_TOKEN, AIRTABLE_BASE, AIRTABLE_TABLE_ID
    store,         \* the Airtable table: a sequence of [id, fields]
    next_id,       \* the id the table gives the next created record
    pyhash,        \* the process's str hash: serialization -> hash value
    \* ---- unique_key applied on its own
    key_in,        \* the two field mappings it is applied to
    key_out,       \* the two keys returned (<<>> before the call)
    \* ---- run()
    pc,            \* the position in run(), or how it ended
    detail_links,  \* the list collect_detail_links returned
    idx,           \* scrape loop: the number of links already processed
    all_rows,      \* the records scraped so far
    csv,           \* the rows written to the CSV file (<<"none">>: no file)
    allowed,       \* airtable_existing_fields()
    existing,      \* key -> (rec_id, fields), in insertion order
    desired,       \* key -> fields, in insertion order
    to_create,
    to_update,
    keep,
    to_delete_ids,
    off,           \* the offset i of the next chunk of the running batch
    \* ---- what an observer of the run sees
    fetched,       \* the GET requests sent to the site, in order, and how each went
    parsed,        \* scrape loop: per processed link, what happened
    calls,         \* the requests sent to the Airtable API, in order, and how each went
    origin         \* the identity keys behind to_create, to_update, to_delete_ids

envVars == <<page, cfg, store, next_id, pyhash>>
keyVars == <<key_in, key_out>>
scrapeVars == <<detail_links, idx, all_rows, csv, fetched, parsed>>
syncVars == <<allowed, existing, desired, to_create, to_update, keep,
              to_delete_ids, off, origin>>
runVars == <<pc, scrapeVars, syncVars, calls>>

vars == <<envVars, keyVars, runVars>>

(***************************************************************************)
(* Bounds of the model.                                                    *)
(***************************************************************************)
\* number of values the process-local hash can take in the model
HashRange == 2
\* number of link-bearing elements of a listing page
MaxElems == 2
\* number of detail links of the listing page of a run
MaxLinks == 3
\* number of records of the table before a run
MaxStore == 2
\* length of the longest list handed to a batch function
MaxItems == 21

(***************************************************************************)
(* Python values and dicts.                                                *)
(***************************************************************************)
None == <<"None">>
Str(s) == <<"str", s>>
Num(i) == <<"int", i>>
\* a float: its whole part and the digits of its fraction without trailing
\* zeros
Flt(whole, frac) == <<"float", whole, frac>>

EmptyDict == <<>>

\* dict.get(name): None when the key is missing
Get(d, name) == IF name \in DOMAIN d THEN d[name] ELSE None

\* dict.get(name, ""): the empty str when the key is missing
GetOrEmpty(d, name) == IF name \in DOMAIN d THEN d[name] ELSE Str("")

\* (v or ""): the falsy values None and "" become "", a str stays itself
OrEmpty(v) == IF v = None \/ v = Str("") THEN "" ELSE v[2]

Min(a, b) == IF a <= b THEN a ELSE b

(***************************************************************************)
(* str methods.                                                            *)
(***************************************************************************)
IsSpace(c) == c \in {" ", "\t", "\n", "\r"}

RECURSIVE LStrip(_)
LStrip(s) ==
    IF s = "" THEN ""
    ELSE IF IsSpace(SubSeq(s, 1, 1)) THEN LStrip(SubSeq(s, 2, Len(s)))
    ELSE s

RECURSIVE RStrip(_)
RStrip(s) ==
    IF s = "" THEN ""
    ELSE IF IsSpace(SubSeq(s, Len(s), Len(s))) THEN RStrip(SubSeq(s, 1, Len(s) - 1))
    ELSE s

\* str.strip()
Strip(s) == RStrip(LStrip(s))

StartsWith(s, p) == Len(s) >= Len(p) /\ SubSeq(s, 1, Len(p)) = p

\* sub in s
Contains(s, sub) ==
    \E i \in 1 .. (Len(s) - Len(sub) + 1) : SubSeq(s, i, i + Len(sub) - 1) = sub

UpperLetters == "ABCDEFGHIJKLMNOPQRSTUVWXYZ"
LowerLetters == "abcdefghijklmnopqrstuvwxyz"

LowerTable ==
    [c \in {SubSeq(UpperLetters, n, n) : n \in 1 .. Len(UpperLetters)} |->
        LET n == CHOOSE j \in 1 .. Len(UpperLetters) : SubSeq(UpperLetters, j, j) = c
        IN  SubSeq(LowerLetters, n, n)]

LowerChar(c) == IF c \in DOMAIN LowerTable THEN LowerTable[c] ELSE c

\* str.lower()
RECURSIVE Lower(_)
Lower(s) ==
    IF s = "" THEN ""
    ELSE LowerChar(SubSeq(s, 1, 1)) \o Lower(SubSeq(s, 2, Len(s)))

\* str.rstrip(chars)
RECURSIVE RStripChars(_, _)
RStripChars(s, chars) ==
    IF s = "" THEN ""
    ELSE IF Contains(chars, SubSeq(s, Len(s), Len(s)))
         THEN RStripChars(SubSeq(s, 1, Len(s) - 1), chars)
    ELSE s

(***************************************************************************)
(* json.dumps(fields, sort_keys=True), for mappings over the field names   *)
(* of make_record and values without characters that JSON escapes.         *)
(***************************************************************************)
SortedFieldNames ==
    << "Alle_Bilder", "Anzahl_Bilder", "Beschreibung", "Bild", "Kategorie",
       "Objektnummer", "Preis", "Standort", "Titel", "Webseite" >>

JsonValue(v) ==
    IF v = None THEN "null"
    ELSE IF v[1] = "int" THEN ToString(v[2])
    ELSE IF v[1] = "float" THEN ToString(v[2]) \o "." \o (IF v[3] = "" THEN "0" ELSE v[3])
    ELSE "\"" \o v[2] \o "\""

RECURSIVE JsonItems(_, _, _)
JsonItems(d, i, first) ==
    IF i > Len(SortedFieldNames) THEN ""
    ELSE LET name == SortedFieldNames[i]
         IN IF name \in DOMAIN d
            THEN (IF first THEN "" ELSE ", ")
                 \o "\"" \o name \o "\": " \o JsonValue(d[name])
                 \o JsonItems(d, i + 1, FALSE)
            ELSE JsonItems(d, i + 1, first)

json_dumps(d) == "{" \o JsonItems(d, 1, TRUE) \o "}"

(***************************************************************************)
(* unique_key                                                              *)
(***************************************************************************)
\* hash(s): the value the process's hash gives the str s
PyHash(s) == pyhash[s]

unique_key_nostrip(fields) ==
    LET obj == OrEmpty(Get(fields, "Objektnummer"))
        url == OrEmpty(Get(fields, "Webseite"))
    IN  IF obj # "" THEN "obj:" \o obj
        ELSE IF url # "" THEN "url:" \o url
        ELSE "hash:" \o ToString(PyHash(json_dumps(fields)))

unique_key(fields) ==
    LET obj == Strip(OrEmpty(Get(fields, "Objektnummer")))
        url == Strip(OrEmpty(Get(fields, "Webseite")))
    IN  IF obj # "" THEN "obj:" \o obj
        ELSE IF url # "" THEN "url:" \o url
        ELSE "hash:" \o ToString(PyHash(json_dumps(fields)))

(***************************************************************************)
(* unique_key applied to two mappings in one process.                      *)
(***************************************************************************)
KeyObjektnummern == {None, Str(""), Str(" "), Str("A1"), Str(" A1 "), Str("B2")}
KeyWebseiten == {None, Str(""), Str("\t"), Str("https://x.de/exposee/1"), Str(" https://x.de/exposee/1")}
KeyTitel == {Str("Haus"), Str("Hof")}

\* the mappings unique_key is applied to: each field present or missing
KeyInputs ==
    { [n \in names |-> CASE n = "Objektnummer" -> o
                         [] n = "Webseite" -> w
                         [] OTHER -> t] :
        names \in { {"Titel"}, {"Titel", "Objektnummer"}, {"Titel", "Webseite"},
                    {"Titel", "Objektnummer", "Webseite"} },
        o \in KeyObjektnummern, w \in KeyWebseiten, t \in KeyTitel }

\* the mappings whose key is the hash fallback
IsHashBranch(m) ==
    /\ Strip(OrEmpty(Get(m, "Objektnummer"))) = ""
    /\ Strip(OrEmpty(Get(m, "Webseite"))) = ""

HashDomain(ms) == { json_dumps(m) : m \in { x \in ms : IsHashBranch(x) } }

\* the variables of run() before its first statement
FreshRun ==
    /\ detail_links = <<>>
    /\ idx = 0
    /\ all_rows = <<>>
    /\ csv = <<"none">>
    /\ allowed = {}
    /\ existing = <<>>
    /\ desired = <<>>
    /\ to_create = <<>>
    /\ to_update = <<>>
    /\ keep = {}
    /\ to_delete_ids = <<>>
    /\ off = 0
    /\ fetched = <<>>
    /\ parsed = <<>>
    /\ calls = <<>>
    /\ origin = [create |-> <<>>, update |-> <<>>, delete |-> <<>>]

\* run() is not started
IdleRun == pc = "idle" /\ FreshRun

IdleKey ==
    /\ key_in = <<>>
    /\ key_out = <<>>

InitKey ==
    /\ key_in \in KeyInputs \X KeyInputs
    /\ key_out = <<>>
    /\ pyhash \in [HashDomain({key_in[1], key_in[2]}) -> 0 .. (HashRange - 1)]
    /\ page = <<>>
    /\ cfg = [token |-> "", base |-> "", table |-> ""]
    /\ store = <<>>
    /\ next_id = 1
    /\ IdleRun

ComputeKeys ==
    /\ key_in # <<>>
    /\ key_out = <<>>
    /\ key_out' = <<unique_key(key_in[1]), unique_key(key_in[2])>>
    /\ UNCHANGED <<envVars, key_in, runVars>>

NextKey == ComputeKeys

SpecKey == InitKey /\ [][NextKey]_vars

(***************************************************************************)
(* Claims about unique_key (checked under SpecKey).                        *)
(***************************************************************************)
KeyDone == key_out # <<>>

\* the object number and the URL of a mapping, as text, without and with
\* the surrounding whitespace removed
RawObj(m) == OrEmpty(Get(m, "Objektnummer"))
RawUrl(m) == OrEmpty(Get(m, "Webseite"))
HasPrefix(s, p) == Len(s) >= Len(p) /\ SubSeq(s, 1, Len(p)) = p

BASE == "https://alainreinicke.landingpage.immobilien"
LIST_URL == BASE \o "/public"

\* the passes in the order the function runs them
PassKinds == << "a", "onclick", "data-url", "data-href", "re1", "re2", "re3", "script" >>

\* urljoin(BASE, url) for the forms of url the model feeds it: "", a
\* network-path reference (//host/..), an absolute path (/..), a relative
\* path without dot segments; BASE has an empty path
urljoin(base, url) ==
    IF url = "" THEN base
    ELSE IF StartsWith(url, "//") THEN "https:" \o url
    ELSE IF StartsWith(url, "/") THEN base \o url
    ELSE base \o "/" \o url

\* if not url.startswith("http"): url = urljoin(BASE, url)
Absolute(url) == IF StartsWith(url, "http") THEN url ELSE urljoin(BASE, url)

\* the URL a pass derives from the text it extracted
Candidate(kind, raw) ==
    IF kind \in {"re1", "re2", "re3", "script"}
    THEN Absolute(RStripChars(raw, "\",'};])"))
    ELSE Absolute(raw)

\* the pass's own condition on what it extracted
Accepts(kind, raw) ==
    IF kind \in {"a", "data-url", "data-href"} THEN Contains(Lower(raw), "exposee")
    ELSE IF kind = "script" THEN Len(Candidate(kind, raw)) > 30
    ELSE TRUE

\* one iteration of a pass's loop on the accumulator [links, seen],
\* without the test on seen
AddLinkNoSeen(acc, kind, raw) ==
    LET url == Candidate(kind, raw)
    IN  IF Accepts(kind, raw)
        THEN [links |-> Append(acc.links, url), seen |-> acc.seen \cup {url}]
        ELSE acc

\* one iteration of a pass's loop on the accumulator [links, seen]
AddLink(acc, kind, raw) ==
    LET url == Candidate(kind, raw)
    IN  IF Accepts(kind, raw) /\ url \notin acc.seen
        THEN [links |-> Append(acc.links, url), seen |-> acc.seen \cup {url}]
        ELSE acc

\* one pass: its loop over the elements of its kind, in page order
RECURSIVE RunPass(_, _, _, _)
RunPass(acc, pg, kind, n) ==
    IF n > Len(pg) THEN acc
    ELSE RunPass(IF pg[n].kind = kind THEN AddLink(acc, kind, pg[n].raw) ELSE acc,
                 pg, kind, n + 1)

RECURSIVE RunPasses(_, _, _)
RunPasses(acc, pg, k) ==
    IF k > Len(PassKinds) THEN acc
    ELSE RunPasses(RunPass(acc, pg, PassKinds[k], 1), pg, k + 1)

IsReserved(link) == Contains(Lower(link), "reserviert")

NotReserved(link) == ~IsReserved(link)

\* the value collect_detail_links returns for a listing page
collect_detail_links(pg) ==
    SelectSeq(RunPasses([links |-> <<>>, seen |-> {}], pg, 1).links, NotReserved)

(***************************************************************************)
(* run(): collecting the links (lines 630-640)                             *)
(***************************************************************************)
\* the same, going on with the links of the page when soup_get raised
CollectLinksAnyway ==
    /\ pc = "start"
    /\ \E ok \in BOOLEAN :
        /\ fetched' = Append(fetched, [url |-> LIST_URL, ok |-> ok])
        /\ detail_links' = collect_detail_links(page)
        /\ pc' = IF detail_links' = <<>> THEN "ret_no_links" ELSE "scrape"
    /\ UNCHANGED <<envVars, keyVars, idx, all_rows, csv, parsed, syncVars, calls>>

CollectLinks ==
    /\ pc = "start"
    /\ \E ok \in BOOLEAN :
        /\ fetched' = Append(fetched, [url |-> LIST_URL, ok |-> ok])
        /\ IF ~ok
           THEN \* soup_get raised: caught in run(), which returns
                /\ pc' = "ret_list_error"
                /\ detail_links' = detail_links
           ELSE /\ detail_links' = collect_detail_links(page)
                /\ pc' = IF detail_links' = <<>> THEN "ret_no_links" ELSE "scrape"
    /\ UNCHANGED <<envVars, keyVars, idx, all_rows, csv, parsed, syncVars, calls>>

(***************************************************************************)
(* collect_detail_links on its own: any page of at most MaxElems elements. *)
(***************************************************************************)
LinkRaws ==
    { "/public/exposee/42",
      "https://alainreinicke.landingpage.immobilien/public/exposee/42",
      "/public/exposee/42)",
      "/public/exposee/43-Reserviert",
      "http://x.de/exposee/7",
      "/kontakt" }

\* what a pass can extract: the regex passes only text that matches their
\* pattern (re1 the absolute exposee URL, re2 the /public/exposee/ path
\* up to a closing bracket, the others any quoted text holding "exposee")
PassRaws(kind) ==
    CASE kind = "re1" -> { r \in LinkRaws : StartsWith(r, BASE \o "/public/exposee/") }
      [] kind = "re2" -> { r \in LinkRaws : StartsWith(r, "/public/exposee/")
                                             /\ ~Contains(r, ")") }
      [] kind \in {"onclick", "re3", "script"} -> { r \in LinkRaws : Contains(r, "exposee") }
      [] OTHER -> LinkRaws

PageElems ==
    UNION { { [kind |-> PassKinds[k], raw |-> r] : r \in PassRaws(PassKinds[k]) } :
            k \in 1 .. Len(PassKinds) }

SeqsUpTo(S, n) == UNION { [1 .. m -> S] : m \in 0 .. n }

InitLinks ==
    /\ page \in SeqsUpTo(PageElems, MaxElems)
    /\ cfg = [token |-> "", base |-> "", table |-> ""]
    /\ store = <<>>
    /\ next_id = 1
    /\ pyhash = <<>>
    /\ IdleKey
    /\ pc = "start"
    /\ FreshRun

NextLinks == CollectLinks

SpecLinks == InitLinks /\ [][NextLinks]_vars

(***************************************************************************)
(* Claims about collect_detail_links (checked under SpecLinks).            *)
(***************************************************************************)
\* what one pass finds: the URLs it derives from the elements it accepts
RECURSIVE PassFinds(_, _, _)
PassFinds(pg, kind, n) ==
    IF n > Len(pg) THEN <<>>
    ELSE (IF pg[n].kind = kind /\ Accepts(kind, pg[n].raw)
          THEN <<Candidate(kind, pg[n].raw)>> ELSE <<>>)
         \o PassFinds(pg, kind, n + 1)

\* the outputs of the passes, one after the other
RECURSIVE Discovered(_, _)
Discovered(pg, k) ==
    IF k > Len(PassKinds) THEN <<>>
    ELSE PassFinds(pg, PassKinds[k], 1) \o Discovered(pg, k + 1)

FirstIndex(s, x) == CHOOSE n \in 1 .. Len(s) : s[n] = x /\ \A m \in 1 .. (n - 1) : s[m] # x

HasKeyword(url) ==
    \E n \in 1 .. Len(url) :
        n + 9 <= Len(url) /\ Lower(SubSeq(url, n, n + 9)) = "reserviert"

LinksReturned == pc \in {"scrape", "ret_no_links"}

\* C10: the list returned holds each absolute URL at most once, in the
\* order of first discovery across the passes, holds no URL with
\* "reserviert" in it in any letter case, and holds every discovered URL
\* without it.
C10_LinksOnceInOrderFiltered ==
    LinksReturned =>
        LET d == Discovered(page, 1)
            r == detail_links
        IN  /\ \A a, b \in 1 .. Len(r) : a # b => r[a] # r[b]
            /\ \A a \in 1 .. Len(r) :
                  ~HasKeyword(r[a]) /\ \E n \in 1 .. Len(d) : d[n] = r[a]
            /\ \A n \in 1 .. Len(d) :
                  ~HasKeyword(d[n]) => \E a \in 1 .. Len(r) : r[a] = d[n]
            /\ \A a, b \in 1 .. Len(r) :
                  a < b => FirstIndex(d, r[a]) < FirstIndex(d, r[b])

\* an anchor and a script both gave the same URL, and it was returned once
C10_Witness ==
    /\ pc = "scrape"
    /\ Len(page) = 2
    /\ page[1] = [kind |-> "script", raw |-> "/public/exposee/42)"]
    /\ page[2] = [kind |-> "a", raw |-> "/public/exposee/42"]
    /\ Discovered(page, 1) = <<BASE \o "/public/exposee/42", BASE \o "/public/exposee/42">>
    /\ detail_links = <<BASE \o "/public/exposee/42">>

(***************************************************************************)
(* make_record and parse_price_to_number                                   *)
(***************************************************************************)
Digits == "0123456789"

DigitValue(c) == (CHOOSE n \in 1 .. 10 : SubSeq(Digits, n, n) = c) - 1

\* re.sub(r"[^0-9.,]", "", s)
RECURSIVE KeepPriceChars(_)
KeepPriceChars(s) ==
    IF s = "" THEN ""
    ELSE (IF Contains(Digits \o ".,", SubSeq(s, 1, 1)) THEN SubSeq(s, 1, 1) ELSE "")
         \o KeepPriceChars(SubSeq(s, 2, Len(s)))

\* str.replace(c, "")
RECURSIVE RemoveChar(_, _)
RemoveChar(s, c) ==
    IF s = "" THEN ""
    ELSE (IF SubSeq(s, 1, 1) = c THEN "" ELSE SubSeq(s, 1, 1))
         \o RemoveChar(SubSeq(s, 2, Len(s)), c)

RECURSIVE DigitsToNat(_, _)
DigitsToNat(s, acc) ==
    IF s = "" THEN acc
    ELSE DigitsToNat(SubSeq(s, 2, Len(s)), 10 * acc + DigitValue(SubSeq(s, 1, 1)))

\* the number of times the character c occurs in s
RECURSIVE CountChar(_, _)
CountChar(s, c) ==
    IF s = "" THEN 0
    ELSE (IF SubSeq(s, 1, 1) = c THEN 1 ELSE 0) + CountChar(SubSeq(s, 2, Len(s)), c)

\* the position of the first c in s
IndexOf(s, c) == CHOOSE n \in 1 .. Len(s) : SubSeq(s, n, n) = c /\ ~Contains(SubSeq(s, 1, n - 1), c)

RECURSIVE StripTrailingZeros(_)
StripTrailingZeros(s) ==
    IF s # "" /\ SubSeq(s, Len(s), Len(s)) = "0"
    THEN StripTrailingZeros(SubSeq(s, 1, Len(s) - 1))
    ELSE s

\* float(clean) for a text of digits and points: one point at most and a
\* digit at least, or the conversion raises and the function returns None
FloatOf(clean) ==
    IF CountChar(clean, ".") > 1 \/ RemoveChar(clean, ".") = "" THEN None
    ELSE IF CountChar(clean, ".") = 0 THEN Flt(DigitsToNat(clean, 0), "")
    ELSE LET p == IndexOf(clean, ".")
         IN  Flt(DigitsToNat(SubSeq(clean, 1, p - 1), 0),
                 StripTrailingZeros(SubSeq(clean, p + 1, Len(clean))))

\* str.replace(a, b) for single characters
RECURSIVE ReplaceChar(_, _, _)
ReplaceChar(s, a, b) ==
    IF s = "" THEN ""
    ELSE (IF SubSeq(s, 1, 1) = a THEN b ELSE SubSeq(s, 1, 1))
         \o ReplaceChar(SubSeq(s, 2, Len(s)), a, b)

\* the thousands points are removed, the decimal comma becomes a point and
\* the text is converted; None for an empty text and when float() raises
parse_price_to_number(preis_str) ==
    IF preis_str = "" THEN None
    ELSE FloatOf(ReplaceChar(RemoveChar(KeepPriceChars(preis_str), "."), ",", "."))

make_record(row) ==
    [ Titel         |-> Str(row.Titel),
      Kategorie     |-> Str(row.Kategorie),
      Webseite      |-> Str(row.URL),
      Objektnummer  |-> Str(row.Objektnummer),
      Beschreibung  |-> Str(row.Beschreibung),
      Bild          |-> Str(row.Bild_URL),
      Alle_Bilder   |-> Str(row.Alle_Bilder),
      Anzahl_Bilder |-> Num(row.Anzahl_Bilder),
      Preis         |-> parse_price_to_number(row.Preis),
      Standort      |-> Str(row.Ort) ]

\* what parse_detail returns for a page: the URL it was given and the
\* fields it extracted
DetailRow(url, titel, objektnummer, beschreibung, preis) ==
    [ Titel |-> titel, URL |-> url, Beschreibung |-> beschreibung,
      Objektnummer |-> objektnummer, Kategorie |-> "Kaufen", Preis |-> preis,
      Ort |-> "", Bild_URL |-> "", Alle_Bilder |-> "", Anzahl_Bilder |-> 0 ]

(***************************************************************************)
(* run(): the scrape loop (lines 643-663) and the CSV file (665-682)       *)
(***************************************************************************)
\* the detail pages the site may serve under a URL
ParseRows(url) ==
    { DetailRow(url, "Haus", "A1", "lange Beschreibung", "€350.000"),
      DetailRow(url, "Hof", "A1", "kurz", "1.250,50 €"),
      DetailRow(url, "Hof", "", "kurz", ""),
      DetailRow(url, "Haus", "", "", "") }

\* one iteration of the loop, leaving the loop when parse_detail raises
ScrapeOneBreak ==
    /\ pc = "scrape"
    /\ idx < Len(detail_links)
    /\ LET url == detail_links[idx + 1]
       IN  \/ /\ fetched' = Append(fetched, [url |-> url, ok |-> FALSE])
              /\ parsed' = Append(parsed, [url |-> url, ok |-> FALSE])
              /\ all_rows' = all_rows
              /\ idx' = Len(detail_links)
           \/ \E row \in ParseRows(url) :
                 /\ fetched' = Append(fetched, [url |-> url, ok |-> TRUE])
                 /\ parsed' = Append(parsed, [url |-> url, ok |-> TRUE,
                                              record |-> make_record(row)])
                 /\ all_rows' = Append(all_rows, make_record(row))
                 /\ idx' = idx + 1
    /\ UNCHANGED <<envVars, keyVars, pc, detail_links, csv, syncVars, calls>>

\* one iteration of the loop: parse_detail raises (the request or the
\* parsing failed), or returns a row
ScrapeOne ==
    /\ pc = "scrape"
    /\ idx < Len(detail_links)
    /\ LET url == detail_links[idx + 1]
       IN  \/ /\ fetched' = Append(fetched, [url |-> url, ok |-> FALSE])
              /\ parsed' = Append(parsed, [url |-> url, ok |-> FALSE])
              /\ all_rows' = all_rows
           \/ \E row \in ParseRows(url) :
                 /\ fetched' = Append(fetched, [url |-> url, ok |-> TRUE])
                 /\ parsed' = Append(parsed, [url |-> url, ok |-> TRUE,
                                              record |-> make_record(row)])
                 /\ all_rows' = Append(all_rows, make_record(row))
    /\ idx' = idx + 1
    /\ UNCHANGED <<envVars, keyVars, pc, detail_links, csv, syncVars, calls>>

airtable_table_segment ==
    IF cfg.base = "" \/ cfg.table = "" THEN "" ELSE cfg.base \o "/" \o cfg.table

\* the test of line 682 without its third operand
SyncConfiguredNoTable == cfg.token # "" /\ cfg.base # ""

\* if AIRTABLE_TOKEN and AIRTABLE_BASE and airtable_table_segment():
SyncConfigured == cfg.token # "" /\ cfg.base # "" /\ airtable_table_segment # ""

\* the loop is over, without the return of lines 661-663
FinishScrapeNoReturn ==
    /\ pc = "scrape"
    /\ idx = Len(detail_links)
    /\ csv' = all_rows
    /\ pc' = IF SyncConfigured THEN "list_fields" ELSE "ret_skipped"
    /\ UNCHANGED <<envVars, keyVars, detail_links, idx, all_rows, fetched, parsed,
                   syncVars, calls>>

\* the loop is over: return without rows, or write the CSV file and enter
\* the sync or skip it
FinishScrape ==
    /\ pc = "scrape"
    /\ idx = Len(detail_links)
    /\ IF all_rows = <<>>
       THEN pc' = "ret_no_rows" /\ csv' = csv
       ELSE /\ csv' = all_rows
            /\ pc' = IF SyncConfigured THEN "list_fields" ELSE "ret_skipped"
    /\ UNCHANGED <<envVars, keyVars, detail_links, idx, all_rows, fetched, parsed,
                   syncVars, calls>>

(***************************************************************************)
(* run(): the Airtable sync (lines 682-729)                                *)
(*                                                                         *)
(* A dict whose iteration order matters is a sequence of entries with      *)
(* distinct keys k, in insertion order; assigning to a key that is present *)
(* replaces its value in place.                                            *)
(***************************************************************************)
BATCH == 10

HasKey(d, k) == \E n \in 1 .. Len(d) : d[n].k = k

Lookup(d, k) == d[CHOOSE n \in 1 .. Len(d) : d[n].k = k]

\* d[e.k] = e
SetEntry(d, e) ==
    IF HasKey(d, e.k)
    THEN [n \in 1 .. Len(d) |-> IF d[n].k = e.k THEN e ELSE d[n]]
    ELSE Append(d, e)

Restrict(f, S) == [x \in (DOMAIN f) \cap S |-> f[x]]

\* len(d.get("Beschreibung", ""))
DescLen(d) == Len(GetOrEmpty(d, "Beschreibung")[2])

\* airtable_existing_fields, given what airtable_list_all returned
airtable_existing_fields(all_fields) ==
    IF all_fields = <<>> THEN {} ELSE DOMAIN all_fields[1]

sanitize_record_for_airtable(record, allowed_fields) ==
    IF allowed_fields = {} THEN record
    ELSE Restrict(record, allowed_fields)

\* lines 688-691
RECURSIVE BuildExisting(_, _, _)
BuildExisting(acc, recs, n) ==
    IF n > Len(recs) THEN acc
    ELSE BuildExisting(
            SetEntry(acc, [k |-> unique_key(recs[n].fields), id |-> recs[n].id,
                           fields |-> recs[n].fields]),
            recs, n + 1)

\* lines 693-700; src is the index in all_rows of the record an entry was
\* made from
RECURSIVE BuildDesired(_, _, _, _)
BuildDesired(acc, rows, allow, n) ==
    IF n > Len(rows) THEN acc
    ELSE LET r == rows[n]
             k == unique_key(r)
             e == [k |-> k, fields |-> sanitize_record_for_airtable(r, allow), src |-> n]
         IN  BuildDesired(
                IF HasKey(acc, k)
                THEN (IF DescLen(r) > DescLen(Lookup(acc, k).fields)
                      THEN SetEntry(acc, e) ELSE acc)
                ELSE SetEntry(acc, e),
                rows, allow, n + 1)

\* line 706, over the fields of both mappings
FieldDiffBoth(old, fields) ==
    LET names == { fld \in (DOMAIN fields) \cup (DOMAIN old) :
                      Get(old, fld) # Get(fields, fld) }
    IN  [fld \in names |-> Get(fields, fld)]

\* line 706: {fld: val for fld, val in fields.items() if old.get(fld) != val}
FieldDiff(old, fields) ==
    Restrict(fields, { fld \in DOMAIN fields : Get(old, fld) # fields[fld] })

\* lines 702-711, creating instead of keeping a key that is present
RECURSIVE PlanAlwaysCreate(_, _, _, _)
PlanAlwaysCreate(acc, des, exi, n) ==
    IF n > Len(des) THEN acc
    ELSE LET k == des[n].k
             fields == des[n].fields
         IN  IF HasKey(exi, k)
             THEN PlanAlwaysCreate(
                     [acc EXCEPT !.to_create = Append(@, fields),
                                 !.keep = @ \cup {k},
                                 !.create_keys = Append(@, k)],
                     des, exi, n + 1)
             ELSE PlanAlwaysCreate(
                     [acc EXCEPT !.to_create = Append(@, fields),
                                 !.create_keys = Append(@, k)],
                     des, exi, n + 1)

\* lines 702-711: the loop over desired; create_keys and update_keys note
\* the key each appended element belongs to
RECURSIVE Plan(_, _, _, _)
Plan(acc, des, exi, n) ==
    IF n > Len(des) THEN acc
    ELSE LET k == des[n].k
             fields == des[n].fields
         IN  IF HasKey(exi, k)
             THEN LET old == Lookup(exi, k).fields
                      rec_id == Lookup(exi, k).id
                      diff == FieldDiff(old, fields)
                  IN  Plan(
                        [acc EXCEPT
                            !.to_update = IF diff # EmptyDict
                                          THEN Append(@, [id |-> rec_id, fields |-> diff])
                                          ELSE @,
                            !.update_keys = IF diff # EmptyDict THEN Append(@, k) ELSE @,
                            !.keep = @ \cup {k}],
                        des, exi, n + 1)
             ELSE Plan(
                    [acc EXCEPT !.to_create = Append(@, fields),
                                !.create_keys = Append(@, k)],
                    des, exi, n + 1)

EmptyPlan ==
    [to_create |-> <<>>, to_update |-> <<>>, keep |-> {},
     create_keys |-> <<>>, update_keys |-> <<>>]

NotKept(kept, exi) == { n \in 1 .. Len(exi) : exi[n].k \notin kept }

\* the elements of s at the positions in P, in order
RECURSIVE Pick(_, _, _)
Pick(s, P, n) ==
    IF n > Len(s) THEN <<>>
    ELSE (IF n \in P THEN <<s[n]>> ELSE <<>>) \o Pick(s, P, n + 1)

\* the batch to run after the creates, and after the updates (lines 720-725)
AfterUpdate(del) == IF del # <<>> THEN "delete" ELSE "ret"
AfterCreate(upd, del) == IF upd # <<>> THEN "update" ELSE AfterUpdate(del)
FirstBatch(cre, upd, del) == IF cre # <<>> THEN "create" ELSE AfterCreate(upd, del)

\* what airtable_list_all returns: the records of the table, which here
\* fit one page of 100
ListedIds == [n \in 1 .. Len(store) |-> store[n].id]
ListedFields == [n \in 1 .. Len(store) |-> store[n].fields]

\* line 685: allowed = airtable_existing_fields()
ListFields ==
    /\ pc = "list_fields"
    /\ \/ /\ calls' = Append(calls, [op |-> "list", items |-> <<>>, ok |-> FALSE])
          /\ pc' = "raised"
          /\ allowed' = allowed
       \/ /\ calls' = Append(calls, [op |-> "list", items |-> <<>>, ok |-> TRUE])
          /\ allowed' = airtable_existing_fields(ListedFields)
          /\ pc' = "list_all"
    /\ UNCHANGED <<envVars, keyVars, scrapeVars, existing, desired, to_create,
                   to_update, keep, to_delete_ids, off, origin>>

\* lines 686-715: the second listing and the reconciliation
ListAll ==
    /\ pc = "list_all"
    /\ \/ /\ calls' = Append(calls, [op |-> "list", items |-> <<>>, ok |-> FALSE])
          /\ pc' = "raised"
          /\ UNCHANGED <<existing, desired, to_create, to_update, keep,
                         to_delete_ids, origin>>
       \/ LET exi == BuildExisting(<<>>, store, 1)
              des == BuildDesired(<<>>, all_rows, allowed, 1)
              plan == Plan(EmptyPlan, des, exi, 1)
              gone == NotKept(plan.keep, exi)
              del == [n \in 1 .. Len(Pick(exi, gone, 1)) |-> Pick(exi, gone, 1)[n].id]
          IN  /\ calls' = Append(calls, [op |-> "list", items |-> <<>>, ok |-> TRUE])
              /\ existing' = exi
              /\ desired' = des
              /\ to_create' = plan.to_create
              /\ to_update' = plan.to_update
              /\ keep' = plan.keep
              /\ to_delete_ids' = del
              /\ origin' = [create |-> plan.create_keys,
                            update |-> plan.update_keys,
                            delete |-> [n \in 1 .. Len(Pick(exi, gone, 1)) |->
                                            Pick(exi, gone, 1)[n].k]]
              /\ pc' = FirstBatch(plan.to_create, plan.to_update, del)
    /\ off' = 0
    /\ UNCHANGED <<envVars, keyVars, scrapeVars, allowed>>

(***************************************************************************)
(* The batch calls (lines 155-189) and what they do to the table.  A call  *)
(* that is answered with an error status changes nothing.                  *)
(***************************************************************************)
RecId(n) == "rec" \o ToString(n)

\* records[i:i+10], one element short
ChunkShort(list) == SubSeq(list, off + 1, Min(off + BATCH - 1, Len(list)))

\* records[i:i+10]
Chunk(list) == SubSeq(list, off + 1, Min(off + BATCH, Len(list)))

\* POST: the table appends a record per element, under fresh ids
StoreCreate(batch) ==
    store \o [n \in 1 .. Len(batch) |->
                [id |-> RecId(next_id + n - 1), fields |-> batch[n]]]

\* PATCH: the fields given replace or extend those of the record
Patched(rec, batch) ==
    IF \E n \in 1 .. Len(batch) : batch[n].id = rec.id
    THEN LET diff == batch[CHOOSE n \in 1 .. Len(batch) : batch[n].id = rec.id].fields
         IN  [rec EXCEPT !.fields =
                [x \in (DOMAIN rec.fields) \cup (DOMAIN diff) |->
                    IF x \in DOMAIN diff THEN diff[x] ELSE rec.fields[x]]]
    ELSE rec

StoreUpdate(batch) == [n \in 1 .. Len(store) |-> Patched(store[n], batch)]

\* DELETE: the records with the ids given are removed
StoreDelete(batch) ==
    Pick(store, { n \in 1 .. Len(store) :
                    \A m \in 1 .. Len(batch) : batch[m] # store[n].id }, 1)

\* a call of a batch function: the request and whether it was answered
\* with a success status
Call(op, batch, ok) == [op |-> op, items |-> batch, ok |-> ok]

\* airtable_batch_create: one iteration of its loop
CreateChunk ==
    /\ pc = "create"
    /\ \/ /\ calls' = Append(calls, Call("create", Chunk(to_create), FALSE))
          /\ pc' = "raised"
          /\ UNCHANGED <<store, next_id, off>>
       \/ /\ calls' = Append(calls, Call("create", Chunk(to_create), TRUE))
          /\ store' = StoreCreate(Chunk(to_create))
          /\ next_id' = next_id + Len(Chunk(to_create))
          /\ IF off + BATCH < Len(to_create)
             THEN off' = off + BATCH /\ pc' = pc
             ELSE off' = 0 /\ pc' = AfterCreate(to_update, to_delete_ids)
    /\ UNCHANGED <<page, cfg, pyhash, keyVars, scrapeVars, allowed, existing,
                   desired, to_create, to_update, keep, to_delete_ids, origin>>

\* airtable_batch_update: one iteration of its loop, going on with the
\* next chunk after an error status
UpdateChunkGoOn ==
    /\ pc = "update"
    /\ \E ok \in BOOLEAN :
          /\ calls' = Append(calls, Call("update", Chunk(to_update), ok))
          /\ store' = IF ok THEN StoreUpdate(Chunk(to_update)) ELSE store
    /\ IF off + BATCH < Len(to_update)
       THEN off' = off + BATCH /\ pc' = pc
       ELSE off' = 0 /\ pc' = AfterUpdate(to_delete_ids)
    /\ UNCHANGED <<page, cfg, next_id, pyhash, keyVars, scrapeVars, allowed,
                   existing, desired, to_create, to_update, keep, to_delete_ids,
                   origin>>

\* airtable_batch_update: one iteration of its loop
UpdateChunk ==
    /\ pc = "update"
    /\ \/ /\ calls' = Append(calls, Call("update", Chunk(to_update), FALSE))
          /\ pc' = "raised"
          /\ UNCHANGED <<store, off>>
       \/ /\ calls' = Append(calls, Call("update", Chunk(to_update), TRUE))
          /\ store' = StoreUpdate(Chunk(to_update))
          /\ IF off + BATCH < Len(to_update)
             THEN off' = off + BATCH /\ pc' = pc
             ELSE off' = 0 /\ pc' = AfterUpdate(to_delete_ids)
    /\ UNCHANGED <<page, cfg, next_id, pyhash, keyVars, scrapeVars, allowed,
                   existing, desired, to_create, to_update, keep, to_delete_ids,
                   origin>>

\* airtable_batch_delete: one iteration of its loop
DeleteChunk ==
    /\ pc = "delete"
    /\ \/ /\ calls' = Append(calls, Call("delete", Chunk(to_delete_ids), FALSE))
          /\ pc' = "raised"
          /\ UNCHANGED <<store, off>>
       \/ /\ calls' = Append(calls, Call("delete", Chunk(to_delete_ids), TRUE))
          /\ store' = StoreDelete(Chunk(to_delete_ids))
          /\ IF off + BATCH < Len(to_delete_ids)
             THEN off' = off + BATCH /\ pc' = pc
             ELSE off' = 0 /\ pc' = "ret"
    /\ UNCHANGED <<page, cfg, next_id, pyhash, keyVars, scrapeVars, allowed,
                   existing, desired, to_create, to_update, keep, to_delete_ids,
                   origin>>

(***************************************************************************)
(* run() as a whole.                                                       *)
(***************************************************************************)
NextRun ==
    \/ CollectLinks
    \/ ScrapeOne
    \/ FinishScrape
    \/ ListFields
    \/ ListAll
    \/ CreateChunk
    \/ UpdateChunk
    \/ DeleteChunk

\* a listing page with n anchors to detail pages
LinkPage(n) ==
    [m \in 1 .. n |-> [kind |-> "a", raw |-> "/public/exposee/4" \o ToString(m)]]

DetailUrl(m) == BASE \o "/public/exposee/4" \o ToString(m)

Configs == [token : {"", "pat"}, base : {"", "app"}, table : {"", "tbl"}]

FullConfig == [token |-> "pat", base |-> "app", table |-> "tbl"]

\* the field mappings of the records the table may hold
RemoteFields ==
    { [Objektnummer |-> Str("A1"), Titel |-> Str("Haus")],
      make_record(DetailRow(DetailUrl(1), "Haus", "A1", "lange Beschreibung", "€350.000")),
      [Webseite |-> Str(DetailUrl(2)), Titel |-> Str("Hof"), Beschreibung |-> Str("kurz")],
      EmptyDict,
      [Objektnummer |-> Str("Z9"), Titel |-> Str("Alt"), Beschreibung |-> Str("kurz")],
      [Objektnummer |-> Str(" A1"), Titel |-> Str("Hof"), Beschreibung |-> Str("kurz")] }

\* a table holding the given field mappings, in this order
TableOf(fs) == [n \in 1 .. Len(fs) |-> [id |-> RecId(n), fields |-> fs[n]]]

\* run() starts: any configuration; a listing page of up to MaxLinks links
\* over a small table, or a page of two links over any table of up to
\* MaxStore records
InitRun ==
    /\ \/ /\ cfg \in Configs
          /\ page \in { LinkPage(n) : n \in 0 .. MaxLinks }
          /\ store \in { TableOf(fs) : fs \in SeqsUpTo({[Titel |-> Str("Haus")]}, 1) }
       \/ /\ cfg = FullConfig
          /\ page = LinkPage(Min(2, MaxLinks))
          /\ store \in { TableOf(fs) : fs \in SeqsUpTo(RemoteFields, MaxStore) }
    /\ next_id = Len(store) + 1
    /\ pyhash \in [HashDomain({store[n].fields : n \in 1 .. Len(store)})
                     -> 0 .. (HashRange - 1)]
    /\ IdleKey
    /\ pc = "start"
    /\ FreshRun

Spec == InitRun /\ [][NextRun]_vars

(***************************************************************************)
(* The sync of a run that scraped many records: run() at line 682, after   *)
(* a scrape in which every page succeeded.  One scraped record is in the   *)
(* table as it is, nu are there with another title, nc are not there, and  *)
(* nd records of the table were not scraped.                               *)
(***************************************************************************)
SmallSizes == {0, 1, BATCH + 1}

SyncPath(tag, n) == "/public/exposee/" \o tag \o ToString(n)

SyncRecord(tag, n) ==
    make_record(DetailRow(BASE \o SyncPath(tag, n), "Haus", tag \o ToString(n), "kurz", ""))

SyncPaths(nc, nu) ==
    <<SyncPath("N", 0)>> \o [n \in 1 .. nu |-> SyncPath("U", n)]
                         \o [n \in 1 .. nc |-> SyncPath("C", n)]

SyncRows(nc, nu) ==
    <<SyncRecord("N", 0)>> \o [n \in 1 .. nu |-> SyncRecord("U", n)]
                           \o [n \in 1 .. nc |-> SyncRecord("C", n)]

SyncTable(nu, nd) ==
    TableOf(<<SyncRecord("N", 0)>>
            \o [n \in 1 .. nu |-> [SyncRecord("U", n) EXCEPT !.Titel = Str("Alt")]]
            \o [n \in 1 .. nd |-> SyncRecord("D", n)])

SyncSizes ==
    { s \in (0 .. MaxItems) \X (0 .. MaxItems) \X (0 .. MaxItems) :
        \E a \in 1 .. 3 : \A b \in (1 .. 3) \ {a} : s[b] \in SmallSizes }

InitSync ==
    \E s \in SyncSizes :
        LET nc == s[1]
            nu == s[2]
            nd == s[3]
            paths == SyncPaths(nc, nu)
            rows == SyncRows(nc, nu)
        IN  /\ cfg = FullConfig
            /\ page = [n \in 1 .. Len(paths) |-> [kind |-> "a", raw |-> paths[n]]]
            /\ store = SyncTable(nu, nd)
            /\ next_id = Len(store) + 1
            /\ pyhash = <<>>
            /\ IdleKey
            /\ pc = "list_fields"
            /\ detail_links = [n \in 1 .. Len(paths) |-> BASE \o paths[n]]
            /\ idx = Len(paths)
            /\ all_rows = rows
            /\ csv = rows
            /\ fetched = <<[url |-> LIST_URL, ok |-> TRUE]>>
                         \o [n \in 1 .. Len(paths) |-> [url |-> BASE \o paths[n], ok |-> TRUE]]
            /\ parsed = [n \in 1 .. Len(paths) |->
                            [url |-> BASE \o paths[n], ok |-> TRUE, record |-> rows[n]]]
            /\ calls = <<>>
            /\ allowed = {}
            /\ existing = <<>>
            /\ desired = <<>>
            /\ to_create = <<>>
            /\ to_update = <<>>
            /\ keep = {}
            /\ to_delete_ids = <<>>
            /\ off = 0
            /\ origin = [create |-> <<>>, update |-> <<>>, delete |-> <<>>]

NextSync ==
    \/ ListFields
    \/ ListAll
    \/ CreateChunk
    \/ UpdateChunk
    \/ DeleteChunk

SpecSync == InitSync /\ [][NextSync]_vars

(***************************************************************************)
(* Claims about run() (checked under Spec).                                *)
(***************************************************************************)
Range(s) == { s[n] : n \in 1 .. Len(s) }

KeysOf(d) == { d[n].k : n \in 1 .. Len(d) }

\* the reconciliation (lines 688-713) has been done
Reconciled ==
    \/ pc \in {"create", "update", "delete", "ret"}
    \/ pc = "raised" /\ \E n \in 1 .. Len(calls) : calls[n].op # "list"

\* origin names, element by element, the keys behind the three lists
OriginMatches ==
    /\ Len(origin.create) = Len(to_create)
    /\ Len(origin.update) = Len(to_update)
    /\ Len(origin.delete) = Len(to_delete_ids)
    /\ \A n \in 1 .. Len(to_create) :
          /\ HasKey(desired, origin.create[n])
          /\ to_create[n] = Lookup(desired, origin.create[n]).fields
    /\ \A n \in 1 .. Len(to_update) :
          /\ HasKey(existing, origin.update[n])
          /\ to_update[n].id = Lookup(existing, origin.update[n]).id
    /\ \A n \in 1 .. Len(to_delete_ids) :
          /\ HasKey(existing, origin.delete[n])
          /\ to_delete_ids[n] = Lookup(existing, origin.delete[n]).id

\* C1: the reconciliation partitions the keys: a desired key is created
\* (absent from existing) or kept (present), never both; an existing key
\* is kept or its id is in to_delete_ids, never both; the keys behind
\* to_create, to_update and to_delete_ids are pairwise disjoint; and
\* |to_create| + |keep| = |desired|, |to_delete_ids| + |keep| = |existing|.
C1_ReconcilePartitions ==
    Reconciled =>
        /\ OriginMatches
        /\ \A k \in KeysOf(desired) :
              /\ (k \in Range(origin.create)) <=> ~HasKey(existing, k)
              /\ (k \in keep) <=> HasKey(existing, k)
              /\ ~(k \in Range(origin.create) /\ k \in keep)
        /\ \A n \in 1 .. Len(existing) :
              /\ (existing[n].k \in keep) \/ (existing[n].id \in Range(to_delete_ids))
              /\ ~(existing[n].k \in keep /\ existing[n].id \in Range(to_delete_ids))
        /\ keep \subseteq KeysOf(desired) \cap KeysOf(existing)
        /\ Range(origin.create) \cap Range(origin.update) = {}
        /\ Range(origin.create) \cap Range(origin.delete) = {}
        /\ Range(origin.update) \cap Range(origin.delete) = {}
        /\ Len(to_create) + Cardinality(keep) = Len(desired)
        /\ Len(to_delete_ids) + Cardinality(keep) = Len(existing)

\* a reconciliation that creates, updates and deletes
C1_Witness ==
    /\ Reconciled
    /\ to_create # <<>>
    /\ to_update # <<>>
    /\ to_delete_ids # <<>>
    /\ Len(desired) = 2
    /\ Len(existing) = 2

\* the positions in to_update of the updates of key k
UpdatesOf(k) == { n \in 1 .. Len(to_update) : origin.update[n] = k }

\* C2 as stated: for a desired key present in existing the diff holds a
\* field f iff old[f] # new[f], for every f of either mapping (a missing
\* field counting as an absent value); an update is appended iff the diff
\* is non-empty.
C2_Original ==
    Reconciled =>
        \A e \in Range(desired) :
            HasKey(existing, e.k) =>
                LET old == Lookup(existing, e.k).fields
                    new == e.fields
                    differing == { f \in (DOMAIN old) \cup (DOMAIN new) :
                                      Get(old, f) # Get(new, f) }
                IN  /\ (UpdatesOf(e.k) # {}) <=> (differing # {})
                    /\ \A n \in UpdatesOf(e.k) :
                          DOMAIN to_update[n].fields = differing

\* C2 (amended): for a desired key present in existing the diff holds a
\* field f iff f is a field of the desired mapping and old[f] # new[f] (a
\* field missing from old counting as an absent value), with the desired
\* value; fields only the remote mapping has never enter the diff;
\* diff(old, old) is empty; and exactly one update, under the remote id,
\* is appended iff the diff is non-empty.
C2_DiffOverDesiredFields ==
    Reconciled =>
        /\ OriginMatches
        /\ \A e \in Range(desired) :
            HasKey(existing, e.k) =>
                LET old == Lookup(existing, e.k).fields
                    new == e.fields
                    differing == { f \in DOMAIN new : Get(old, f) # new[f] }
                IN  /\ (UpdatesOf(e.k) # {}) <=> (differing # {})
                    /\ Cardinality(UpdatesOf(e.k)) <= 1
                    /\ \A n \in UpdatesOf(e.k) :
                          /\ DOMAIN to_update[n].fields = differing
                          /\ \A f \in differing : to_update[n].fields[f] = new[f]
                          /\ to_update[n].id = Lookup(existing, e.k).id
                    /\ FieldDiff(old, old) = EmptyDict
                    /\ FieldDiff(new, new) = EmptyDict

\* a kept key whose update holds some but not all of the desired fields,
\* the remote record having a field the desired record lacks, beside a
\* kept key without an update
C2_Witness ==
    /\ Reconciled
    /\ \E e \in Range(desired) :
          /\ HasKey(existing, e.k)
          /\ \E n \in UpdatesOf(e.k) :
                /\ DOMAIN to_update[n].fields # DOMAIN e.fields
                /\ DOMAIN to_update[n].fields # {}
          /\ ~(DOMAIN Lookup(existing, e.k).fields \subseteq DOMAIN e.fields)
    /\ \E e \in Range(desired) : e.k \in keep /\ UpdatesOf(e.k) = {}

\* the scraped records that have the key k
RowsOf(k) == { n \in 1 .. Len(all_rows) : unique_key(all_rows[n]) = k }

\* C3: for each identity key shared by scraped records, the record retained
\* in desired has maximal description length among the records sharing the
\* key, a later record replacing the retained one only if its description
\* is strictly longer (so the first of the longest is retained).
C3_LongestDescriptionWins ==
    Reconciled =>
        \A e \in Range(desired) :
            /\ e.src \in RowsOf(e.k)
            /\ e.fields = sanitize_record_for_airtable(all_rows[e.src], allowed)
            /\ \A n \in RowsOf(e.k) :
                  /\ DescLen(all_rows[n]) <= DescLen(all_rows[e.src])
                  /\ DescLen(all_rows[n]) = DescLen(all_rows[e.src]) => e.src <= n

ConfigMissing == cfg.token = "" \/ cfg.base = "" \/ cfg.table = ""

\* C6: if a configuration value is absent or empty, no store call of any
\* kind is issued, the run does not end with an error, the sync is never
\* entered and the table is left alone; the CSV file written from the
\* scraped rows is all the run produces.
C6_NoSyncWithoutConfig ==
    ConfigMissing =>
        /\ calls = <<>>
        /\ pc \in {"start", "scrape", "ret_list_error", "ret_no_links",
                   "ret_no_rows", "ret_skipped"}
        /\ next_id = Len(store) + 1
        /\ \A n \in 1 .. Len(store) : store[n].id = RecId(n)
        /\ pc = "ret_skipped" => (csv = all_rows /\ all_rows # <<>>)

\* a run with only the table id missing ended after writing the CSV file
C6_Witness ==
    /\ cfg = [token |-> "pat", base |-> "app", table |-> ""]
    /\ pc = "ret_skipped"
    /\ Len(all_rows) = 2
    /\ csv = all_rows
    /\ calls = <<>>

RECURSIVE RecordsOfSucceeded(_, _)
RecordsOfSucceeded(log, n) ==
    IF n > Len(log) THEN <<>>
    ELSE (IF log[n].ok THEN <<log[n].record>> ELSE <<>>)
         \o RecordsOfSucceeded(log, n + 1)

ScrapeLoopOver ==
    pc \in {"ret_no_rows", "ret_skipped", "list_fields", "list_all", "create",
            "update", "delete", "ret", "raised"}

\* C8: every URL of the link list is requested and parsed exactly once, in
\* list order, without retry; a failure skips only that item, the loop
\* ends only when every link has been processed, and all_rows holds
\* exactly the records of the pages that succeeded, in list order.
C8_EveryLinkOnceInOrder ==
    (pc = "scrape" \/ ScrapeLoopOver) =>
        /\ Len(parsed) = idx
        /\ idx <= Len(detail_links)
        /\ Len(fetched) = idx + 1
        /\ \A n \in 1 .. idx :
              /\ parsed[n].url = detail_links[n]
              /\ fetched[n + 1].url = detail_links[n]
              /\ fetched[n + 1].ok = parsed[n].ok
        /\ all_rows = RecordsOfSucceeded(parsed, 1)
        /\ ScrapeLoopOver => idx = Len(detail_links)

\* three links, the second failed, the first and the third gave the rows
C8_Witness ==
    /\ ScrapeLoopOver
    /\ Len(detail_links) = 3
    /\ parsed[1].ok /\ ~parsed[2].ok /\ parsed[3].ok
    /\ all_rows = <<parsed[1].record, parsed[3].record>>
    /\ all_rows[1].Webseite = Str(detail_links[1])
    /\ all_rows[2].Webseite = Str(detail_links[3])

ListingFailed == fetched # <<>> /\ ~fetched[1].ok

\* C9: if fetching the listing page fails the run is over before any item
\* is processed: no detail page is requested, no CSV file is written and
\* no store call is issued.
C9_ListingFailureAborts ==
    ListingFailed =>
        /\ pc = "ret_list_error"
        /\ Len(fetched) = 1
        /\ parsed = <<>>
        /\ all_rows = <<>>
        /\ csv = <<"none">>
        /\ calls = <<>>

\* the listing request failed on a page with links, under a full
\* configuration
C9_Witness ==
    /\ ListingFailed
    /\ pc = "ret_list_error"
    /\ Len(page) > 0
    /\ cfg = FullConfig

(***************************************************************************)
(* Claims about the batch calls (checked under SpecSync).                  *)
(***************************************************************************)
\* the calls of one batch function, in order
RECURSIVE CallsOf(_, _)
CallsOf(op, n) ==
    IF n > Len(calls) THEN <<>>
    ELSE (IF calls[n].op = op THEN <<calls[n]>> ELSE <<>>) \o CallsOf(op, n + 1)

\* the payloads of a sequence of calls, one after the other
RECURSIVE Payloads(_, _)
Payloads(cs, n) ==
    IF n > Len(cs) THEN <<>> ELSE cs[n].items \o Payloads(cs, n + 1)

\* the list a batch function is given
InputOf(op) ==
    CASE op = "create" -> to_create
      [] op = "update" -> to_update
      [] op = "delete" -> to_delete_ids

\* the batch function has returned
Returned(op) ==
    CASE op = "create" -> pc \in {"update", "delete", "ret"}
      [] op = "update" -> pc \in {"delete", "ret"}
      [] op = "delete" -> pc = "ret"

BatchOps == {"create", "update", "delete"}

CeilDiv(a, b) == (a + b - 1) \div b

OpRank(op) ==
    CASE op = "list" -> 0 [] op = "create" -> 1 [] op = "update" -> 2 [] op = "delete" -> 3

ExistingIds == { existing[n].id : n \in 1 .. Len(existing) }

StoreIds == { store[n].id : n \in 1 .. Len(store) }

StoreRecord(id) == store[CHOOSE n \in 1 .. Len(store) : store[n].id = id]

\* the ids and the update items of the calls that succeeded
DeletedIds ==
    UNION { Range(calls[n].items) : n \in { m \in 1 .. Len(calls) :
                                             calls[m].op = "delete" /\ calls[m].ok } }
AppliedUpdates ==
    UNION { Range(calls[n].items) : n \in { m \in 1 .. Len(calls) :
                                             calls[m].op = "update" /\ calls[m].ok } }
CreatedSoFar ==
    Payloads(SelectSeq(CallsOf("create", 1), LAMBDA c : c.ok), 1)

\* C5: the calls come in the order creates, updates, deletes; a call
\* answered with an error status is the last call of the run and the run
\* ends with the error (no further chunk, no later batch, no retry: the
\* payloads of a batch are consecutive chunks of its list); every chunk
\* that succeeded is applied in the table and stays applied.
C5_OrderedAbortKeepsApplied ==
    /\ \A m, n \in 1 .. Len(calls) : m < n => OpRank(calls[m].op) <= OpRank(calls[n].op)
    /\ \A n \in 1 .. Len(calls) : ~calls[n].ok => (n = Len(calls) /\ pc = "raised")
    /\ pc = "raised" => (calls # <<>> /\ ~calls[Len(calls)].ok)
    /\ \A op \in BatchOps :
          LET sent == Payloads(CallsOf(op, 1), 1)
          IN  /\ Len(sent) <= Len(InputOf(op))
              /\ sent = SubSeq(InputOf(op), 1, Len(sent))
    /\ Reconciled =>
          \* the created records are in the table, after the old ones
          /\ Len(store) = Len(existing) - Cardinality(DeletedIds) + Len(CreatedSoFar)
          /\ \A n \in 1 .. Len(CreatedSoFar) :
                LET rec == store[Len(store) - Len(CreatedSoFar) + n]
                IN  rec.fields = CreatedSoFar[n] /\ rec.id \notin ExistingIds
          \* the deleted records are gone
          /\ DeletedIds \cap StoreIds = {}
          \* the updated records have the fields sent, the others are as listed
          /\ \A e \in Range(existing) :
                e.id \notin DeletedIds =>
                    /\ e.id \in StoreIds
                    /\ \A u \in AppliedUpdates :
                          u.id = e.id =>
                            \A f \in DOMAIN u.fields :
                                StoreRecord(e.id).fields[f] = u.fields[f]
                    /\ (\A u \in AppliedUpdates : u.id # e.id)
                          => StoreRecord(e.id).fields = e.fields

\* the second chunk of the updates failed after two create chunks and one
\* update chunk had succeeded: the deletes were never sent
C5_Witness ==
    /\ pc = "raised"
    /\ Len(to_create) = BATCH + 1
    /\ Len(to_update) = BATCH + 1
    /\ Len(to_delete_ids) > 0
    /\ Len(calls) = 6
    /\ calls[5].op = "update" /\ calls[5].ok
    /\ calls[6].op = "update" /\ ~calls[6].ok
    /\ Len(store) = Len(existing) + Len(to_create)
    /\ \E e \in Range(existing) : e.id = to_update[1].id
                                  /\ StoreRecord(e.id).fields # e.fields

\* C7: a batch function that returned has issued exactly ceil(n/10) calls
\* for its list of length n, each carrying between 1 and 10 items, whose
\* payloads in call order make up the list: every item once, in order, and
\* no call for an empty list.
C7_ChunksCoverInput ==
    \A op \in BatchOps :
        LET cs == CallsOf(op, 1)
        IN  /\ \A n \in 1 .. Len(cs) : Len(cs[n].items) \in 1 .. 10
            /\ InputOf(op) = <<>> => cs = <<>>
            /\ Returned(op) =>
                  /\ Len(cs) = CeilDiv(Len(InputOf(op)), 10)
                  /\ Payloads(cs, 1) = InputOf(op)

\* 21 creates went out in three calls of 10, 10 and 1 records
C7_Witness ==
    /\ pc = "ret"
    /\ Len(to_create) = 21
    /\ Len(CallsOf("create", 1)) = 3
    /\ Len(CallsOf("create", 1)[1].items) = 10
    /\ Len(CallsOf("create", 1)[3].items) = 1
    /\ Len(CallsOf("update", 1)) = 2
    /\ Len(CallsOf("delete", 1)) = 1

(***************************************************************************)
(* A second run over the table the first run left behind (spec SpecAgain). *)
(* The sync of the first run completed; the script is started again in a   *)
(* new process, scrapes the same rows and enters the sync again.           *)
(***************************************************************************)
AgainMark == [op |-> "again", items |-> <<>>, ok |-> TRUE]

SecondRun == \E n \in 1 .. Len(calls) : calls[n] = AgainMark

\* the second run reaches line 682 with the rows the first run had; hash()
\* is that of the new process
SyncAgain ==
    /\ pc = "ret"
    /\ ~SecondRun
    /\ pc' = "list_fields"
    /\ calls' = Append(calls, AgainMark)
    /\ pyhash' \in [HashDomain({store[n].fields : n \in 1 .. Len(store)})
                      -> 0 .. (HashRange - 1)]
    /\ allowed' = {}
    /\ existing' = <<>>
    /\ desired' = <<>>
    /\ to_create' = <<>>
    /\ to_update' = <<>>
    /\ keep' = {}
    /\ to_delete_ids' = <<>>
    /\ off' = 0
    /\ origin' = [create |-> <<>>, update |-> <<>>, delete |-> <<>>]
    /\ UNCHANGED <<page, cfg, store, next_id, keyVars, scrapeVars>>

NextAgain ==
    \/ CollectLinks
    \/ ScrapeOne
    \/ FinishScrape
    \/ ListFields
    \/ ListAll
    \/ CreateChunk
    \/ UpdateChunk
    \/ DeleteChunk
    \/ SyncAgain

SpecAgain == InitRun /\ [][NextAgain]_vars

(***************************************************************************)
(* Claims about a second run (checked under SpecAgain).                    *)
(***************************************************************************)
\* the calls made since the second run began
CallsAgain ==
    LET r == CHOOSE n \in 1 .. Len(calls) : calls[n] = AgainMark
    IN  SubSeq(calls, r + 1, Len(calls))

\* the second run has done its reconciliation
ReconciledAgain ==
    /\ SecondRun
    /\ \/ pc \in {"create", "update", "delete", "ret"}
       \/ pc = "raised" /\ \E n \in 1 .. Len(CallsAgain) : CallsAgain[n].op # "list"

\* C11: after a sync that completed, with the table holding what was sent,
\* the reconciliation of the same rows against that table, the allow-list
\* taken from the table again, plans nothing: to_create, to_update and
\* to_delete_ids are empty, whatever the allow-list.
C11_SecondSyncPlansNothing ==
    ReconciledAgain =>
        /\ to_create = <<>>
        /\ to_update = <<>>
        /\ to_delete_ids = <<>>

(***************************************************************************)
(* Claims about the remote records and the store calls of a run (checked   *)
(* under Spec).                                                            *)
(***************************************************************************)
\* the reconciliation has just been done: the table is still as it was
\* listed
JustReconciled ==
    /\ pc \in {"create", "update", "delete", "ret"}
    /\ \A n \in 1 .. Len(calls) : calls[n].op = "list"

\* the remote ids matched to a desired key
KeptIds == { existing[n].id : n \in { m \in 1 .. Len(existing) : existing[m].k \in keep } }

\* C12: every record airtable_list_all returned is accounted for: its id
\* is the id matched to a desired key (kept, possibly updated) or it is in
\* to_delete_ids, also when records of the table share an identity key.
C12_EveryRemoteRecordAccounted ==
    JustReconciled =>
        \A n \in 1 .. Len(store) :
            store[n].id \in KeptIds \cup Range(to_delete_ids)
\* the run is over or in its sync without having scraped a record
NoRecordScraped ==
    /\ all_rows = <<>>
    /\ pc \notin {"start", "scrape"}

\* every call of the batch function op succeeded and its list went out whole
BatchSucceeded(op) ==
    /\ \A n \in 1 .. Len(CallsOf(op, 1)) : CallsOf(op, 1)[n].ok
    /\ Payloads(CallsOf(op, 1), 1) = InputOf(op)

\* C13: a run that scrapes no record (no link, or every detail page
\* failed) ends without any store call and leaves the table as it was; a
\* store call is issued only with all_rows non-empty, and a delete call
\* only after the create batch and the update batch went out whole and
\* without an error.
C13_NoRowsNoCallsDeleteLast ==
    /\ NoRecordScraped =>
          /\ pc \in {"ret_list_error", "ret_no_links", "ret_no_rows"}
          /\ calls = <<>>
          /\ next_id = Len(store) + 1
          /\ \A n \in 1 .. Len(store) : store[n].id = RecId(n)
    /\ calls # <<>> => all_rows # <<>>
    /\ \A n \in 1 .. Len(calls) :
          calls[n].op = "delete" =>
              /\ all_rows # <<>>
              /\ BatchSucceeded("create")
              /\ BatchSucceeded("update")
              /\ \A m \in 1 .. n : calls[m].op \in {"create", "update"} => calls[m].ok

\* every detail page of a run with a full configuration over a table with
\* records failed: the run ended without a store call
C13_Witness ==
    /\ pc = "ret_no_rows"
    /\ cfg = FullConfig
    /\ Len(detail_links) = 2
    /\ ~parsed[1].ok /\ ~parsed[2].ok
    /\ Len(store) = 2
    /\ calls = <<>>

====
